---- MODULE Spec2Model ----
(***************************************************************************)
(* Model of broid-alexa's Adapter (src/broid-alexa/src/core/Adapter.ts):   *)
(* the webhook handler, the response:<messageID> correlation listeners     *)
(* kept in the adapter's EventEmitter, their 60 s clean-up timers, send(), *)
(* the listen() stream, and connect() / disconnect().                      *)
(*                                                                         *)
(* JavaScript runs every callback to completion, so each action below is   *)
(* one callback.  The webhook handler is split at the point where it emits *)
(* 'message' (line 180) because the listeners of that event run inside the *)
(* emit, before line 181; while pc = "emitted" only the handler continues. *)
(* The 60000 ms delay of the timer is abstracted to "fires at some later   *)
(* point".                                                                 *)
(***************************************************************************)
EXTENDS Integers, Sequences, FiniteSets, TLC

\* ---------------------------------------------------------------- bounds
\* inbound requests in all, and those taken while send() is exercised
MaxReq == 3
MaxTableReq == 2
\* calls of send()
MaxSends == 2
\* calls of connect() and disconnect(), and the requests and sends taken
\* while they are exercised
MaxLifeCalls == 3
MaxLifeReq == 1
MaxLifeSends == 1
\* tokens in a content string of the formatting specification
MaxLen == 3

\* messageIDs handed out by uuid.v4(), in the order of the requests
Keys == 1..MaxReq
\* recipients a caller of send can name: the messageIDs of the requests the
\* table specification takes and one id (0) that no request ever had
Targets == 0..MaxTableReq

\* ------------------------------------------------------- outbound data
\* Strings are sequences of tokens so that startsWith / endsWith are computed.
PlainC == <<"hello">>
SsmlC == <<"<speak>", "hi", "</speak>">>
Contents == {PlainC, SsmlC}
Absent == "__absent__"
Names == {Absent, "Greeting"}
Types == {"Note", "Image"}

\* the argument of send(): valid is the verdict of schemas(data, 'send')
Commands ==
  {c \in [valid : BOOLEAN, type : Types, content : Contents, name : Names] :
     /\ (c.content = PlainC) <=> (c.name = Absent)
     /\ (c.content = SsmlC) => (c.valid /\ c.type = "Note")
     /\ (c.type = "Image") => c.valid}

\* every content string of at most MaxLen tokens, as a valid Note without name
Tokens == {" ", "hi", "<speak>", "</speak>"}
FormatContents == UNION {[1..n -> Tokens] : n \in 0..MaxLen}
FormatCommands ==
  {[valid |-> TRUE, type |-> "Note", content |-> c, name |-> Absent] :
     c \in FormatContents}

NoCmd == [valid |-> FALSE, type |-> "none", content |-> <<>>, name |-> Absent]

StartsWith(c, tok) == Len(c) > 0 /\ c[1] = tok
EndsWith(c, tok) == Len(c) > 0 /\ c[Len(c)] = tok

\* String.prototype.trim on a token sequence: whitespace tokens off both ends
RECURSIVE TrimLeft(_)
TrimLeft(c) == IF c # <<>> /\ Head(c) = " " THEN TrimLeft(Tail(c)) ELSE c
RECURSIVE TrimRight(_)
TrimRight(c) ==
  IF c # <<>> /\ c[Len(c)] = " " THEN TrimRight(SubSeq(c, 1, Len(c) - 1)) ELSE c
Trim(c) == TrimRight(TrimLeft(c))

OutputSpeechTrimmed(content) ==
  IF StartsWith(Trim(content), "<speak>") /\ EndsWith(Trim(content), "</speak>")
  THEN [type |-> "SSML", ssml |-> content]
  ELSE [type |-> "PlainText", text |-> content]
OutputSpeechPrefixOnly(content) ==
  IF StartsWith(content, "<speak>")
  THEN [type |-> "SSML", ssml |-> content]
  ELSE [type |-> "PlainText", text |-> content]
OutputSpeech(content) ==
  IF StartsWith(content, "<speak>") /\ EndsWith(content, "</speak>")
  THEN [type |-> "SSML", ssml |-> content]
  ELSE [type |-> "PlainText", text |-> content]

Card(data) ==
  [content |-> data.content,
   title |-> IF data.name = Absent THEN "" ELSE data.name,
   type |-> "Simple"]

BuildResponse(data) ==
  [response |-> [card |-> Card(data),
                 outputSpeech |-> OutputSpeech(data.content),
                 shouldEndSession |-> TRUE]]

\* schemas(data, 'send').then(...): the continuation runs only on success
ValidatedAlways(data) == TRUE
Validated(data) == data.valid

IsNoteAny(data) == TRUE
IsNote(data) == data.type = "Note"

\* ------------------------------------------------------ emitter helpers
\* emitter.emit('response:<to>', response) on listeners added with once():
\* the once wrapper removes itself and then calls the listener.
EmitResponseOn(to, ls) ==
  [called |-> IF to \in ls THEN {to} ELSE {}, ls |-> ls]
EmitResponseBroadcast(to, ls) ==
  [called |-> ls, ls |-> {}]
EmitResponse(to, ls) ==
  [called |-> IF to \in ls THEN {to} ELSE {}, ls |-> ls \ {to}]

\* emitter.removeListener('response:<k>', responseListener)
RemoveListenerNoop(k, ls) == ls
RemoveListenerAll(k, ls) == {}
RemoveListener(k, ls) == ls \ {k}

\* what send() settles with once the continuation of line 119 ran to line 154;
\* threw: a listener called by emit raised (res.json on an answered response)
SendResultStrict(called, threw) ==
  IF called = {} \/ threw THEN "rejected:listener" ELSE "sent"
SendResult(called, threw) ==
  IF threw THEN "rejected:listener" ELSE "sent"

\* --------------------------------------------------------- listen() data
\* what Parser.parse / Parser.validate do with the message of a request
Qualities == {"ok", "parseError", "invalid", "validateError"}
None == [key |-> 0, stage |-> "none"]

\* .catch(err => { logger.error(...); return Observable.of(err); })
InnerCatchRethrow(k) == [out |-> <<>>, stream |-> "errored"]
InnerCatch(k) == [out |-> <<[key |-> k, isError |-> TRUE]>>, stream |-> "active"]

\* outer mergeMap: Errors collapse to empty, values go through Promise.resolve
RECURSIVE OuterMap(_)
OuterMap(vals) ==
  IF vals = <<>> THEN <<>>
  ELSE (IF Head(vals).isError THEN <<>> ELSE <<Head(vals).key>>) \o OuterMap(Tail(vals))

\* --------------------------------------------------------- inbound data
\* req.body of an inbound request: body.request and body.session may be
\* missing; request.type; request.intent may be missing, and so may its name
\* and its slots.
RequestTypes == {"IntentRequest", "LaunchRequest"}
NoIntent == [present |-> FALSE, name |-> Absent, slots |-> Absent]
Intents ==
  {NoIntent,
   [present |-> TRUE, name |-> Absent, slots |-> Absent],
   [present |-> TRUE, name |-> "Hello", slots |-> "slots"]}
Bodies ==
  {b \in [hasRequest : BOOLEAN, hasSession : BOOLEAN,
           type : RequestTypes, intent : Intents] :
     (~b.hasRequest \/ ~b.hasSession) =>
        (b.type = "IntentRequest" /\ b.intent = NoIntent /\ (b.hasRequest \/ b.hasSession))}
HelloBody ==
  [hasRequest |-> TRUE, hasSession |-> TRUE, type |-> "IntentRequest",
   intent |-> [present |-> TRUE, name |-> "Hello", slots |-> "slots"]]
NoBody ==
  [hasRequest |-> FALSE, hasSession |-> FALSE, type |-> "none", intent |-> NoIntent]

\* request.type (line 164) and session.application (line 171) raise a
\* TypeError when request or session is undefined
Throws(body) == ~body.hasRequest \/ ~body.hasSession

\* R.path(['intent', 'name'], request), R.path(['intent', 'slots'], request)
PathIntent(body, field) ==
  IF body.intent.present THEN body.intent[field] ELSE Absent

IntentNameAlwaysType(body) == body.type
IntentName(body) ==
  IF body.type = "IntentRequest" THEN PathIntent(body, "name") ELSE body.type

Slots(body) ==
  IF PathIntent(body, "slots") = Absent THEN "{}" ELSE PathIntent(body, "slots")

Message(body, id) ==
  [application |-> "application",
   intentName |-> IntentName(body),
   messageID |-> id,
   requestType |-> body.type,
   slots |-> Slots(body),
   user |-> "user"]
NoMessage ==
  [application |-> Absent, intentName |-> Absent, messageID |-> 0,
   requestType |-> Absent, slots |-> Absent, user |-> Absent]

\* ------------------------------------------------------------ lifecycle
\* connect() starts the webhook server unless this.connected is set
ShouldStartAlways(c) == TRUE
ShouldStart(c) == ~c

\* disconnect() does not touch the emitter
ListenersAfterDisconnectCleared(ls) == {}
ListenersAfterDisconnect(ls) == ls

VARIABLES
  bodies,       \* per request, the body it came with
  messages,     \* per messageID, the message emitted as 'message'
  thrown,       \* requests whose handler raised
  connected,    \* this.connected
  hasServer,    \* this.webhookServer is set (the http option was given)
  listenCalls,  \* calls of webhookServer.listen()
  closeCalls,   \* calls of webhookServer.close()
  nLife,        \* calls of connect() and disconnect()
  lastLife,     \* what the last connect() or disconnect() returned
  nextID,       \* the messageID the next request gets
  pc,           \* "idle", or "emitted": the handler is between lines 180 and 181
  listeners,    \* messageIDs with a once-listener on response:<messageID>
  timers,       \* messageIDs whose setTimeout has not fired yet
  invoked,      \* per messageID, the data responseListener was called with
  resWrites,    \* per messageID, the writes made to its res object
  nSends,       \* number of send() calls settled so far
  lastSend,     \* the send() that settled last, with what it settled with
  stream,       \* the listen() subscription: "none", "active", "errored"
  inner,        \* the inner observable switchMap is subscribed to
  outerPending, \* values inside the outer mergeMap's Promise.resolve
  output,       \* what the subscriber of listen() received
  logged,       \* messageIDs logged by 'Caught Error, continuing'
  quality,      \* per messageID, how its message fares in the parser
  emitted,      \* messageIDs emitted as 'message'
  heard,        \* messageIDs the listen() subscription received
  cancelled,    \* messageIDs whose inner observable switchMap unsubscribed
  registered,   \* messageIDs for which once() was called
  expired,      \* messageIDs whose listener was removed by the timer
  hist          \* per messageID, the order of register / send / timer

vars == <<nextID, pc, listeners, timers, invoked, resWrites, nSends,
          lastSend, stream, inner, outerPending, output, logged, quality,
          emitted, heard, cancelled, registered, expired, hist,
          bodies, messages, thrown,
          connected, hasServer, listenCalls, closeCalls, nLife, lastLife>>

tableVars == <<nextID, pc, listeners, timers, invoked, resWrites, registered,
               expired, hist>>
sendVars == <<nSends, lastSend>>
listenVars == <<stream, inner, outerPending, output, logged, cancelled>>
inboundVars == <<bodies, messages, thrown>>
lifeVars == <<connected, hasServer, listenCalls, closeCalls, nLife, lastLife>>

Init ==
  /\ nextID = 1
  /\ pc = "idle"
  /\ listeners = {}
  /\ timers = {}
  /\ invoked = [k \in Keys |-> <<>>]
  /\ resWrites = [k \in Keys |-> <<>>]
  /\ nSends = 0
  /\ lastSend = [to |-> 0, cmd |-> NoCmd, result |-> "none"]
  /\ stream = "none"
  /\ inner = None
  /\ outerPending = <<>>
  /\ output = <<>>
  /\ logged = {}
  /\ quality = [k \in Keys |-> "ok"]
  /\ emitted = {}
  /\ heard = {}
  /\ cancelled = {}
  /\ registered = {}
  /\ expired = {}
  /\ hist = [k \in Keys |-> <<>>]
  /\ bodies = [k \in Keys |-> NoBody]
  /\ messages = [k \in Keys |-> NoMessage]
  /\ thrown = {}
  /\ connected = FALSE
  /\ hasServer \in BOOLEAN
  /\ listenCalls = 0
  /\ closeCalls = 0
  /\ nLife = 0
  /\ lastLife = [call |-> "none", result |-> "none"]

\* the adapter built without the http option: the host mounts getRouter()
\* itself, so requests arrive whether or not connect() was called
InitRouter == Init /\ ~hasServer

\* ------------------------------------------------------------- listen()
\* a consumer subscribes to listen(): fromEvent adds the 'message' listener
Listen ==
  /\ pc = "idle"
  /\ stream = "none"
  /\ stream' = "active"
  /\ UNCHANGED <<inner, outerPending, output, logged, cancelled>>
  /\ UNCHANGED <<quality, emitted, heard>>
  /\ UNCHANGED inboundVars
  /\ UNCHANGED lifeVars
  /\ UNCHANGED tableVars
  /\ UNCHANGED sendVars

\* ---------------------------------------------------- the webhook handler
\* lines 161-180: build the message and emit it.  An active subscription gets
\* it inside the emit: switchMap unsubscribes the inner observable it has and
\* subscribes to a new one, which calls parser.parse.
HandleEmit(q, body) ==
  /\ pc = "idle"
  /\ nextID <= MaxReq
  /\ ~Throws(body)
  /\ bodies' = [bodies EXCEPT ![nextID] = body]
  /\ messages' = [messages EXCEPT ![nextID] = Message(body, nextID)]
  /\ UNCHANGED thrown
  /\ UNCHANGED lifeVars
  /\ pc' = "emitted"
  /\ quality' = [quality EXCEPT ![nextID] = q]
  /\ emitted' = emitted \cup {nextID}
  /\ IF stream = "active"
     THEN /\ heard' = heard \cup {nextID}
          /\ cancelled' = IF inner = None THEN cancelled
                          ELSE cancelled \cup {inner.key}
          /\ inner' = [key |-> nextID, stage |-> "parse"]
     ELSE UNCHANGED <<heard, cancelled, inner>>
  /\ UNCHANGED <<stream, outerPending, output, logged>>
  /\ UNCHANGED <<nextID, listeners, timers, invoked, resWrites, registered,
                 expired, hist>>
  /\ UNCHANGED sendVars

\* lines 161-171 on a body without request or without session: the handler
\* raises before it emits, registers or answers
HandleThrow(body) ==
  /\ pc = "idle"
  /\ nextID <= MaxReq
  /\ Throws(body)
  /\ bodies' = [bodies EXCEPT ![nextID] = body]
  /\ thrown' = thrown \cup {nextID}
  /\ nextID' = nextID + 1
  /\ UNCHANGED <<pc, listeners, timers, invoked, resWrites, registered, expired, hist>>
  /\ UNCHANGED <<quality, emitted, heard, messages>>
  /\ UNCHANGED listenVars
  /\ UNCHANGED sendVars
  /\ UNCHANGED lifeVars

\* lines 181-188: once(), setTimeout(), res.sendStatus(200)
HandleRegister ==
  /\ pc = "emitted"
  /\ pc' = "idle"
  /\ listeners' = listeners \cup {nextID}
  /\ registered' = registered \cup {nextID}
  /\ timers' = timers \cup {nextID}
  /\ resWrites' = [resWrites EXCEPT ![nextID] = Append(@, "sendStatus")]
  /\ hist' = [hist EXCEPT ![nextID] = Append(@, [ev |-> "register", cmd |-> NoCmd])]
  /\ nextID' = nextID + 1
  /\ UNCHANGED <<invoked, expired>>
  /\ UNCHANGED <<quality, emitted, heard>>
  /\ UNCHANGED inboundVars
  /\ UNCHANGED lifeVars
  /\ UNCHANGED listenVars
  /\ UNCHANGED sendVars

\* the callback given to setTimeout at lines 184-186
TimerFire(k) ==
  /\ pc = "idle"
  /\ k \in timers
  /\ timers' = timers \ {k}
  /\ listeners' = RemoveListener(k, listeners)
  /\ expired' = IF listeners' # listeners THEN expired \cup {k} ELSE expired
  /\ hist' = [hist EXCEPT ![k] = Append(@, [ev |-> "timer", cmd |-> NoCmd])]
  /\ UNCHANGED <<nextID, pc, invoked, resWrites, registered>>
  /\ UNCHANGED <<quality, emitted, heard>>
  /\ UNCHANGED inboundVars
  /\ UNCHANGED lifeVars
  /\ UNCHANGED listenVars
  /\ UNCHANGED sendVars

\* ----------------------------------------------------------------- send()
\* send(data) with data.to.id = to.  The call itself only logs and starts the
\* schema validation (lines 117-118); everything send does to the adapter
\* happens when that promise settles, which is the step modelled here: the
\* rejection, or the continuation of lines 119-155.  threw: the host's
\* res.json raises when the listener writes to the already answered response,
\* and the exception leaves emit and rejects send's promise.
Send(to, cmd, threw) ==
  /\ pc = "idle"
  /\ nSends < MaxSends
  /\ nSends' = nSends + 1
  /\ hist' = [k \in Keys |->
                IF k = to THEN Append(hist[k], [ev |-> "send", cmd |-> cmd])
                ELSE hist[k]]
  /\ IF ~Validated(cmd)
     THEN /\ lastSend' = [to |-> to, cmd |-> cmd, result |-> "rejected:validation"]
          /\ UNCHANGED <<listeners, invoked, resWrites>>
     ELSE IF ~IsNote(cmd)
     THEN /\ lastSend' = [to |-> to, cmd |-> cmd, result |-> "rejected:unsupported"]
          /\ UNCHANGED <<listeners, invoked, resWrites>>
     ELSE LET e == EmitResponse(to, listeners)
              didThrow == threw /\ e.called # {}
          IN /\ listeners' = e.ls
             /\ invoked' = [k \in Keys |->
                              IF k \in e.called
                              THEN Append(invoked[k], BuildResponse(cmd))
                              ELSE invoked[k]]
             /\ resWrites' = [k \in Keys |->
                                IF k \in e.called
                                THEN Append(resWrites[k], "json")
                                ELSE resWrites[k]]
             /\ lastSend' = [to |-> to, cmd |-> cmd,
                             result |-> SendResult(e.called, didThrow)]
  /\ UNCHANGED <<nextID, pc, timers, registered, expired>>
  /\ UNCHANGED <<quality, emitted, heard>>
  /\ UNCHANGED inboundVars
  /\ UNCHANGED lifeVars
  /\ UNCHANGED listenVars

\* ------------------------------------------------ connect / disconnect
\* connect(), lines 69-80
Connect ==
  /\ pc = "idle"
  /\ nLife < MaxLifeCalls
  /\ nLife' = nLife + 1
  /\ IF ShouldStart(connected)
     THEN /\ connected' = TRUE
          /\ listenCalls' = IF hasServer THEN listenCalls + 1 ELSE listenCalls
     ELSE UNCHANGED <<connected, listenCalls>>
  /\ lastLife' = [call |-> "connect",
                  result |-> [type |-> "connected", serviceID |-> "serviceID"]]
  /\ UNCHANGED <<hasServer, closeCalls>>
  /\ UNCHANGED tableVars
  /\ UNCHANGED sendVars
  /\ UNCHANGED listenVars
  /\ UNCHANGED inboundVars
  /\ UNCHANGED <<quality, emitted, heard>>

\* disconnect(), lines 82-88; the log of every registered key notes it
Disconnect ==
  /\ pc = "idle"
  /\ nLife < MaxLifeCalls
  /\ nLife' = nLife + 1
  /\ connected' = FALSE
  /\ closeCalls' = IF hasServer THEN closeCalls + 1 ELSE closeCalls
  /\ lastLife' = [call |-> "disconnect", result |-> "null"]
  /\ listeners' = ListenersAfterDisconnect(listeners)
  /\ hist' = [k \in Keys |->
                IF k \in registered
                THEN Append(hist[k], [ev |-> "disconnect", cmd |-> NoCmd])
                ELSE hist[k]]
  /\ UNCHANGED <<hasServer, listenCalls>>
  /\ UNCHANGED <<nextID, pc, timers, invoked, resWrites, registered, expired>>
  /\ UNCHANGED sendVars
  /\ UNCHANGED listenVars
  /\ UNCHANGED inboundVars
  /\ UNCHANGED <<quality, emitted, heard>>

\* ------------------------------------------------- the listen() pipeline
\* the inner observable ends through its catch handler
Caught(k) ==
  LET c == InnerCatch(k)
  IN /\ inner' = None
     /\ logged' = logged \cup {k}
     /\ stream' = c.stream
     /\ outerPending' = outerPending \o OuterMap(c.out)
     /\ UNCHANGED <<output, cancelled>>

\* the promise of parser.parse settles (line 96)
ParseDone ==
  /\ pc = "idle"
  /\ inner.stage = "parse"
  /\ IF quality[inner.key] = "parseError"
     THEN Caught(inner.key)
     ELSE /\ inner' = [inner EXCEPT !.stage = "validate"]
          /\ UNCHANGED <<stream, outerPending, output, logged, cancelled>>
  /\ UNCHANGED <<quality, emitted, heard>>
  /\ UNCHANGED inboundVars
  /\ UNCHANGED lifeVars
  /\ UNCHANGED tableVars
  /\ UNCHANGED sendVars

\* the promise of parser.validate settles (lines 97-101)
ValidateDone ==
  /\ pc = "idle"
  /\ inner.stage = "validate"
  /\ CASE quality[inner.key] = "validateError" -> Caught(inner.key)
       [] quality[inner.key] = "invalid" ->
            /\ inner' = None
            /\ UNCHANGED <<stream, outerPending, output, logged, cancelled>>
       [] OTHER ->
            /\ inner' = [inner EXCEPT !.stage = "resolve"]
            /\ UNCHANGED <<stream, outerPending, output, logged, cancelled>>
  /\ UNCHANGED <<quality, emitted, heard>>
  /\ UNCHANGED inboundVars
  /\ UNCHANGED lifeVars
  /\ UNCHANGED tableVars
  /\ UNCHANGED sendVars

\* Promise.resolve(validated) of line 100 settles: switchMap emits the value
\* into the outer mergeMap (lines 108-113)
ResolveDone ==
  /\ pc = "idle"
  /\ inner.stage = "resolve"
  /\ inner' = None
  /\ outerPending' = outerPending \o OuterMap(<<[key |-> inner.key, isError |-> FALSE]>>)
  /\ UNCHANGED <<stream, output, logged, cancelled>>
  /\ UNCHANGED <<quality, emitted, heard>>
  /\ UNCHANGED inboundVars
  /\ UNCHANGED lifeVars
  /\ UNCHANGED tableVars
  /\ UNCHANGED sendVars

\* Promise.resolve(value) of line 112 settles: the subscriber gets the event
OuterDone ==
  /\ pc = "idle"
  /\ outerPending # <<>>
  /\ output' = Append(output, Head(outerPending))
  /\ outerPending' = Tail(outerPending)
  /\ UNCHANGED <<stream, inner, logged, cancelled>>
  /\ UNCHANGED <<quality, emitted, heard>>
  /\ UNCHANGED inboundVars
  /\ UNCHANGED lifeVars
  /\ UNCHANGED tableVars
  /\ UNCHANGED sendVars

Next ==
  \/ Listen
  \/ \E q \in Qualities, body \in Bodies : HandleEmit(q, body)
  \/ \E body \in Bodies : HandleThrow(body)
  \/ HandleRegister
  \/ \E k \in Keys : TimerFire(k)
  \/ \E to \in Targets, cmd \in Commands, threw \in BOOLEAN : Send(to, cmd, threw)
  \/ ParseDone
  \/ ValidateDone
  \/ ResolveDone
  \/ OuterDone
  \/ Connect
  \/ Disconnect

Spec == Init /\ [][Next]_vars

\* The correlation table alone: the handler, the timers and send().  No
\* consumer subscribes to listen(), so the pipeline never moves.
NextTable ==
  \/ (nextID <= MaxTableReq /\ HandleEmit("ok", HelloBody))
  \/ HandleRegister
  \/ \E k \in Keys : TimerFire(k)
  \/ \E to \in Targets, cmd \in Commands, threw \in BOOLEAN : Send(to, cmd, threw)

SpecTable == InitRouter /\ [][NextTable]_vars

\* the sends that reach emit
LifeCommands == {c \in Commands : c.valid /\ c.type = "Note"}

\* The correlation table with its scheduling: a handler that has emitted runs
\* on to line 188, and a timer that was set fires after its 60000 ms.  Only
\* sends that reach emit are taken.
NextCleanup ==
  \/ (nextID <= MaxTableReq /\ HandleEmit("ok", HelloBody))
  \/ HandleRegister
  \/ \E k \in Keys : TimerFire(k)
  \/ \E to \in Targets, cmd \in LifeCommands, threw \in BOOLEAN :
        (nSends < MaxLifeSends /\ Send(to, cmd, threw))

SpecCleanup ==
  /\ InitRouter
  /\ [][NextCleanup]_vars
  /\ WF_vars(HandleRegister)
  /\ \A k \in Keys : WF_vars(TimerFire(k))

\* The lifecycle with the correlation table: connect(), disconnect(), the
\* handler, the timers and the sends that reach emit.  With a webhook server
\* of its own the adapter gets requests only between connect and disconnect.
CanReceive == ~hasServer \/ connected
NextLife ==
  \/ Connect
  \/ Disconnect
  \/ (CanReceive /\ nextID <= MaxLifeReq /\ HandleEmit("ok", HelloBody))
  \/ HandleRegister
  \/ \E k \in Keys : TimerFire(k)
  \/ \E to \in 0..MaxLifeReq, cmd \in LifeCommands :
        (nSends < MaxLifeSends /\ Send(to, cmd, FALSE))

SpecLife == Init /\ [][NextLife]_vars

\* The outbound formatter: one request, and one Note with any content sent to
\* its messageID, so that the response reaches responseListener.
NextFormat ==
  \/ (nextID = 1 /\ HandleEmit("ok", HelloBody))
  \/ HandleRegister
  \/ \E cmd \in FormatCommands : (nSends = 0 /\ Send(1, cmd, FALSE))
  \/ TimerFire(1)

SpecFormat == InitRouter /\ [][NextFormat]_vars

\* The inbound normalizer: the handler on every body.
NextInbound ==
  \/ \E body \in Bodies : HandleEmit("ok", body)
  \/ \E body \in Bodies : HandleThrow(body)
  \/ HandleRegister

SpecInbound == InitRouter /\ [][NextInbound]_vars

\* The listen() stream alone: the handler and the pipeline.  send() is never
\* called and the timers are left pending.
NextListen ==
  \/ Listen
  \/ \E q \in Qualities : HandleEmit(q, HelloBody)
  \/ \E body \in Bodies : HandleThrow(body)
  \/ HandleRegister
  \/ ParseDone
  \/ ValidateDone
  \/ ResolveDone
  \/ OuterDone

SpecListen == InitRouter /\ [][NextListen]_vars

\* ------------------------------------------------------ reading the logs
Range(f) == {f[i] : i \in DOMAIN f}
Count(x, f) == Cardinality({i \in DOMAIN f : f[i] = x})

\* a send that reaches emitter.emit: schema-valid and Note-typed
Delivers(e) == e.ev = "send" /\ e.cmd.valid /\ e.cmd.type = "Note"
RegAt(h) == {i \in DOMAIN h : h[i].ev = "register"}
TimerAt(h) == {i \in DOMAIN h : h[i].ev = "timer"}
\* sends to the key after its registration: all of them, and the delivering ones
SendsAfterReg(h) == {i \in DOMAIN h : h[i].ev = "send" /\ \E r \in RegAt(h) : r < i}
DeliveriesAfterReg(h) == {i \in SendsAfterReg(h) : Delivers(h[i])}
Min(S) == CHOOSE i \in S : \A j \in S : i <= j
\* the first delivering send came before the timer fired
DeliveredInTime(h) ==
  /\ DeliveriesAfterReg(h) # {}
  /\ \A t \in TimerAt(h) : Min(DeliveriesAfterReg(h)) < t
\* the timer fired before any send was addressed to the key
ExpiredUnanswered(h) ==
  /\ RegAt(h) # {}
  /\ TimerAt(h) # {}
  /\ \A i \in SendsAfterReg(h) : \A t \in TimerAt(h) : t < i

\* the step is a send() settling
SendStep == nSends' = nSends + 1
TableUntouched ==
  /\ invoked' = invoked
  /\ listeners' = listeners
  /\ resWrites' = resWrites
  /\ timers' = timers

\* the event of k is on its way through the pipeline of listen()
InFlight(k) == inner.key = k \/ k \in Range(outerPending)

\* ----------------------------------------------------------------- claims

\* C1: for every key the reply callback is invoked at most once, delivery and
\* expiry never both take effect for it, and whichever took effect left no
\* registration behind.
C1_AtMostOneEffect ==
  \A k \in Keys :
    /\ Len(invoked[k]) <= 1
    /\ ~(invoked[k] # <<>> /\ k \in expired)
    /\ (invoked[k] # <<>> \/ k \in expired) => k \notin listeners

\* a key that was delivered to, then sent to again, and whose timer has fired
C1_Witness ==
  \E k \in Keys :
    /\ Len(invoked[k]) = 1
    /\ Cardinality(DeliveriesAfterReg(hist[k])) >= 2
    /\ TimerAt(hist[k]) # {}

\* C2: when a valid Note send addressed to a registered key comes before the
\* key's timer fires, the callback has been invoked exactly once, with the
\* response built from that first send, and the registration is gone; this
\* stays so after every later send to the key and after the timer.
C2_FirstSendDelivered ==
  \A k \in Keys :
    DeliveredInTime(hist[k]) =>
      /\ invoked[k] = <<BuildResponse(hist[k][Min(DeliveriesAfterReg(hist[k]))].cmd)>>
      /\ k \notin listeners

\* delivered in time, then a second, different Note send and the timer
C2_Witness ==
  \E k \in Keys :
    /\ DeliveredInTime(hist[k])
    /\ TimerAt(hist[k]) # {}
    /\ \E i \in DeliveriesAfterReg(hist[k]) :
         hist[k][i].cmd # hist[k][Min(DeliveriesAfterReg(hist[k]))].cmd

\* C3: no request ever gets more than one HTTP response written to its reply
\* object (the acknowledgement of the handler and the JSON written by the
\* callback never both occur).
C3_OneHttpResponse == \A k \in Keys : Len(resWrites[k]) <= 1

\* C4: the event of a key is never published while no listener for the key
\* has been registered yet.
C4_RegisteredBeforePublished == \A k \in emitted : k \in registered

\* C5: when the timer of a registered key fires before any send was addressed
\* to it, the registration is removed by the timer, the callback was not
\* invoked, and it is not invoked by any send that follows.
C5_ExpiredNeverInvoked ==
  \A k \in Keys :
    ExpiredUnanswered(hist[k]) =>
      /\ invoked[k] = <<>>
      /\ k \in expired
      /\ k \notin listeners

\* the timer fired on an unanswered key and a valid Note send followed
C5_Witness ==
  \E k \in Keys :
    /\ ExpiredUnanswered(hist[k])
    /\ DeliveriesAfterReg(hist[k]) # {}

\* C6: a valid Note send addressed to a key without a registered callback
\* invokes nothing, leaves the table as it is and settles with 'sent'.
C6_UnmatchedSendIsSent ==
  [][(SendStep /\ lastSend'.cmd.valid /\ lastSend'.cmd.type = "Note"
        /\ lastSend'.to \notin listeners)
       => (TableUntouched /\ lastSend'.result = "sent")]_vars

\* such sends happened to a key that expired and to an id no request had
C6_Witness ==
  /\ lastSend.result = "sent"
  /\ lastSend.to = 0
  /\ \E k \in expired : DeliveriesAfterReg(hist[k]) # {}
  /\ \A k \in Keys : invoked[k] = <<>>

\* C7: a send whose object.type is not 'Note' is rejected, invokes no
\* callback and leaves every registration, the addressed one included.
C7_NonNoteRejected ==
  [][(SendStep /\ lastSend'.cmd.type # "Note")
       => /\ lastSend'.result \in {"rejected:validation", "rejected:unsupported"}
          /\ TableUntouched]_vars

\* a schema-valid Image was sent to a key that is still registered
C7_Witness ==
  /\ lastSend.cmd.type = "Image"
  /\ lastSend.cmd.valid
  /\ lastSend.result = "rejected:unsupported"
  /\ lastSend.to \in listeners

\* C8: a send the schema validator rejects is rejected with the validation
\* error and has no effect on callbacks or registrations, also when it is
\* addressed to a registered key.
C8_InvalidRejected ==
  [][(SendStep /\ ~lastSend'.cmd.valid)
       => (lastSend'.result = "rejected:validation" /\ TableUntouched)]_vars

\* an invalid Note was sent to a key that is still registered
C8_Witness ==
  /\ ~lastSend.cmd.valid
  /\ lastSend.cmd.type = "Note"
  /\ lastSend.result = "rejected:validation"
  /\ lastSend.to \in listeners

\* C9: every event the subscription of listen() received that parses and
\* validates is on its way through the pipeline or came out of listen()
\* exactly once, and no event ever comes out twice.
C9_ConsumedExactlyOnce ==
  \A k \in heard :
    /\ Count(k, output) <= 1
    /\ quality[k] = "ok" => (InFlight(k) \/ Count(k, output) = 1)

\* C10: failing events neither end the subscription nor come out of it, and
\* every event received after a failing one that parses and validates is on
\* its way through the pipeline or has come out.
C10_FailuresContained ==
  /\ stream # "errored"
  /\ \A k \in heard : quality[k] # "ok" => (k \notin Range(output) /\ k \notin Range(outerPending))
  /\ \A k \in heard :
       (quality[k] = "ok" /\ \E j \in logged : j < k) =>
         (InFlight(k) \/ k \in Range(output))

\* C11: every handled request with a malformed body (no request or no
\* session object) was acknowledged by the handler and is absent from the
\* output of listen().
C11_MalformedAcknowledged ==
  \A k \in Keys :
    (k < nextID /\ Throws(bodies[k])) =>
      /\ "sendStatus" \in Range(resWrites[k])
      /\ k \notin Range(output)

\* the step is a call of connect(), of disconnect()
ConnectStep == nLife' = nLife + 1 /\ lastLife'.call = "connect"
DisconnectStep == nLife' = nLife + 1 /\ lastLife'.call = "disconnect"

\* C12: webhookServer.listen() is called only by a connect() that takes the
\* adapter from not connected to connected, once, and every connect(), first
\* or repeated, returns { type: 'connected', serviceID } and leaves the
\* adapter connected.
C12_ConnectIdempotent ==
  [][/\ (listenCalls' # listenCalls) =>
          (ConnectStep /\ ~connected /\ connected' /\ listenCalls' = listenCalls + 1)
     /\ ConnectStep =>
          /\ lastLife'.result = [type |-> "connected", serviceID |-> "serviceID"]
          /\ connected'
          /\ (connected => listenCalls' = listenCalls)]_vars

\* connect() was called twice in a row on an adapter with a webhook server
C12_Witness ==
  /\ hasServer
  /\ nLife = 2
  /\ lastLife.call = "connect"
  /\ closeCalls = 0
  /\ listenCalls = 1

DisconnectAt(h) == {i \in DOMAIN h : h[i].ev = "disconnect"}
\* a disconnect() came while the key was registered and nothing had been
\* delivered to it nor had its timer fired
DisconnectedWhilePending(h) ==
  \E d \in DisconnectAt(h) :
    /\ \A i \in DeliveriesAfterReg(h) : d < i
    /\ \A t \in TimerAt(h) : d < t

\* C20: connect() and disconnect() leave callbacks, registrations and timers
\* as they are; a key that was pending at a disconnect() stays registered
\* until a send to it invokes its callback, exactly once, or its timer
\* removes it.
C20_LifecycleKeepsTable ==
  /\ [][(ConnectStep \/ DisconnectStep) => TableUntouched]_vars
  /\ [](\A k \in Keys :
          DisconnectedWhilePending(hist[k]) =>
            /\ DeliveredInTime(hist[k]) =>
                 (Len(invoked[k]) = 1 /\ k \notin listeners)
            /\ (DeliveriesAfterReg(hist[k]) = {} /\ TimerAt(hist[k]) = {}) =>
                 (k \in listeners /\ k \in timers /\ invoked[k] = <<>>)
            /\ (TimerAt(hist[k]) # {} /\ ~DeliveredInTime(hist[k])) =>
                 (k \notin listeners /\ invoked[k] = <<>>))

\* a send after disconnect() reached the callback of a key registered before
C20_Witness ==
  \E k \in Keys :
    /\ ~connected
    /\ DisconnectedWhilePending(hist[k])
    /\ DeliveredInTime(hist[k])
    /\ Len(invoked[k]) = 1

\* the command of the send that was delivered to k, and the speech it got
DeliveredCmd(k) == hist[k][Min(DeliveriesAfterReg(hist[k]))].cmd
SpeechOf(k) == invoked[k][1].response.outputSpeech
\* the content itself begins with <speak> and ends with </speak>
IsWrapped(c) == c # <<>> /\ Head(c) = "<speak>" /\ c[Len(c)] = "</speak>"

\* C13 as stated: content whose trimmed text is wrapped in <speak>...</speak>
\* gets { type: 'SSML', ssml: c }, every other content gets
\* { type: 'PlainText', text: c }.
C13_TrimmedWrappedIsSsml ==
  \A k \in Keys :
    invoked[k] # <<>> =>
      LET c == DeliveredCmd(k).content
      IN SpeechOf(k) = IF IsWrapped(Trim(c))
                       THEN [type |-> "SSML", ssml |-> c]
                       ELSE [type |-> "PlainText", text |-> c]

\* C13 as amended: content that itself, untrimmed, is wrapped in
\* <speak>...</speak> gets { type: 'SSML', ssml: c }; every other content,
\* markup with whitespace before or after it included, gets
\* { type: 'PlainText', text: c }.
C13_RawWrappedIsSsml ==
  \A k \in Keys :
    invoked[k] # <<>> =>
      LET c == DeliveredCmd(k).content
      IN /\ SpeechOf(k) = IF IsWrapped(c)
                          THEN [type |-> "SSML", ssml |-> c]
                          ELSE [type |-> "PlainText", text |-> c]
         /\ (c # Trim(c)) => SpeechOf(k).type = "PlainText"

\* markup with a leading blank was delivered as plain text
C13_Witness ==
  /\ invoked[1] # <<>>
  /\ DeliveredCmd(1).content = <<" ", "<speak>", "</speak>">>
  /\ SpeechOf(1) = [type |-> "PlainText", text |-> <<" ", "<speak>", "</speak>">>]

\* C14: for every content, the empty one included, the speech is typed SSML
\* exactly when the content itself starts with <speak> and ends with
\* </speak>, PlainText otherwise, and carries exactly one of ssml / text,
\* equal to the content.
C14_SsmlIffWrapped ==
  \A k \in Keys :
    invoked[k] # <<>> =>
      LET c == DeliveredCmd(k).content
          os == SpeechOf(k)
      IN /\ os.type \in {"SSML", "PlainText"}
         /\ (os.type = "SSML") <=> IsWrapped(c)
         /\ (os.type = "SSML") => (DOMAIN os = {"type", "ssml"} /\ os.ssml = c)
         /\ (os.type = "PlainText") => (DOMAIN os = {"type", "text"} /\ os.text = c)

\* the empty content was delivered
C14_Witness ==
  /\ invoked[1] # <<>>
  /\ DeliveredCmd(1).content = <<>>
  /\ SpeechOf(1).type = "PlainText"

\* C15: the intentName of a published event is the requestType unless that
\* is 'IntentRequest'; then it is request.intent.name when present, and absent
\* when the intent or its name is missing, in which case the handler does not
\* raise and the event is still published and registered.
C15_IntentName ==
  \A k \in emitted :
    LET b == bodies[k]
        named == b.intent.present /\ b.intent.name # Absent
    IN /\ messages[k].requestType = b.type
       /\ (b.type # "IntentRequest") => messages[k].intentName = b.type
       /\ (b.type = "IntentRequest" /\ named) => messages[k].intentName = b.intent.name
       /\ (b.type = "IntentRequest" /\ ~named) =>
            /\ messages[k].intentName = Absent
            /\ k \notin thrown
            /\ (k < nextID) => k \in registered

\* an IntentRequest without intent, and one with an unnamed intent, were
\* published and registered
C15_Witness ==
  /\ \E k \in registered :
       bodies[k].type = "IntentRequest" /\ ~bodies[k].intent.present
         /\ messages[k].intentName = Absent
  /\ \E k \in registered :
       bodies[k].type = "IntentRequest" /\ bodies[k].intent.present
         /\ bodies[k].intent.name = Absent
  /\ \E k \in registered : messages[k].intentName = "LaunchRequest"

\* C16: in no state has the callback of a key been invoked while the expiry
\* timer of that key is still pending.
C16_TimerCancelledOnDeliver ==
  \A k \in Keys : invoked[k] # <<>> => k \notin timers

\* the state of a request in Received -> AwaitingReply -> {Replied | Expired}
ReqState(k) ==
  IF invoked[k] # <<>> THEN "Replied"
  ELSE IF k \in expired THEN "Expired"
  ELSE IF k \in listeners THEN "AwaitingReply"
  ELSE IF k \in emitted THEN "Received"
  ELSE "None"

\* C17: a request moves only None -> Received -> AwaitingReply -> Replied or
\* Expired: to AwaitingReply by the registration, to Replied only by a valid
\* Note send addressed to it, to Expired only by its timer, and a Replied or
\* Expired request stays as it is.
C17_RequestLifecycle ==
  [][\A k \in Keys :
       \/ ReqState(k)' = ReqState(k)
       \/ ReqState(k) = "None" /\ ReqState(k)' = "Received"
       \/ /\ ReqState(k) = "Received" /\ ReqState(k)' = "AwaitingReply"
          /\ k \in registered' /\ k \notin registered
       \/ /\ ReqState(k) = "AwaitingReply" /\ ReqState(k)' = "Replied"
          /\ SendStep /\ lastSend'.to = k
          /\ lastSend'.cmd.valid /\ lastSend'.cmd.type = "Note"
       \/ /\ ReqState(k) = "AwaitingReply" /\ ReqState(k)' = "Expired"
          /\ k \in timers /\ k \notin timers']_vars

\* one request was replied to and sent to again and its timer has fired;
\* another expired and was sent to afterwards
C17_Witness ==
  \E k, j \in Keys :
    /\ ReqState(k) = "Replied" /\ k \notin timers
    /\ ReqState(j) = "Expired" /\ DeliveriesAfterReg(hist[j]) # {}

\* C18: with the timers firing, every registration is eventually removed,
\* and the table eventually is and stays empty, whether or not a send occurs.
C18_CleanupGuaranteed ==
  /\ \A k \in Keys : (k \in listeners) ~> (k \notin listeners)
  /\ <>[](listeners = {})

\* every request was registered and removed by its timer without any send
C18_Witness ==
  /\ nSends = 0
  /\ listeners = {}
  /\ Cardinality(expired) >= 2

\* C19: a send addressed to one key and the timer of one key leave the
\* callbacks, registrations and reply objects of every other key as they are,
\* and a reply object only gets a response built from a send addressed to
\* its own key.
C19_KeysIsolated ==
  /\ [][/\ SendStep =>
            \A j \in Keys \ {lastSend'.to} :
              /\ invoked'[j] = invoked[j]
              /\ resWrites'[j] = resWrites[j]
              /\ (j \in listeners') <=> (j \in listeners)
        /\ \A k \in Keys :
             (k \in timers /\ k \notin timers') =>
               \A j \in Keys \ {k} :
                 /\ invoked'[j] = invoked[j]
                 /\ resWrites'[j] = resWrites[j]
                 /\ (j \in listeners') <=> (j \in listeners)]_vars
  /\ [](\A k \in Keys : \A i \in DOMAIN invoked[k] :
          \E j \in DeliveriesAfterReg(hist[k]) :
            invoked[k][i] = BuildResponse(hist[k][j].cmd))

\* one key was replied to and its timer has fired while another is still
\* registered
C19_Witness ==
  \E k, j \in Keys :
    /\ k # j
    /\ invoked[k] # <<>> /\ k \notin timers
    /\ j \in listeners /\ invoked[j] = <<>>

TypeOK ==
  /\ nextID \in 1..(MaxReq + 1)
  /\ pc \in {"idle", "emitted"}
  /\ listeners \subseteq Keys
  /\ timers \subseteq Keys
  /\ stream \in {"none", "active", "errored"}
  /\ nSends \in 0..MaxSends
====
